---------------------------- MODULE Spec2Model ----------------------------
(***************************************************************************)
(* A model of telemetry/internal/browser/browser_finder.py: the resolution *)
(* of one browser among the candidates that the registered browser         *)
(* finders report (FindBrowser), and the listing entry points              *)
(* GetAllAvailableBrowsers and GetAllAvailableBrowserTypes, each wrapped   *)
(* in the memoizing decorator.                                             *)
(*                                                                         *)
(* The finders, the device enumerator and the candidates' own hooks are    *)
(* collaborators outside this file.  What they answer is the variable      *)
(* world (the candidates each finder reports for each device) and the      *)
(* variable devices, both chosen in the initial state and read, never      *)
(* written, by the operations.  Python's None is the string "None".        *)
(***************************************************************************)
EXTENDS Integers, Sequences, FiniteSets, TLC

(***************************************************************************)
(* Bounds of the model.                                                    *)
(***************************************************************************)
MaxDevices == 2     \* devices GetDevicesMatchingOptions may return
MaxBrowsers == 2    \* candidates reported in total, over all devices/finders
MaxTime == 2        \* last_modification_time ranges over 1..MaxTime
MaxCalls == 2       \* calls of the entry points in one behaviour

None == "None"

(***************************************************************************)
(* Strings.  Python compares and sorts str values character by character;  *)
(* Spell gives the characters of every name the model uses and CharCode    *)
(* their order (ASCII: '-' < digits < lowercase letters).                  *)
(***************************************************************************)
Alphabet ==
  << "-", "0", "1", "2", "3", "4", "5", "6", "7", "8", "9",
     "a", "b", "c", "d", "e", "f", "g", "h", "i", "j", "k", "l", "m",
     "n", "o", "p", "q", "r", "s", "t", "u", "v", "w", "x", "y", "z" >>

CharCode(c) == CHOOSE i \in 1..Len(Alphabet) : Alphabet[i] = c

Spell(s) ==
  CASE s = "android-chromium" ->
         << "a","n","d","r","o","i","d","-","c","h","r","o","m","i","u","m" >>
    [] s = "any" -> << "a","n","y" >>
    [] s = "cros-chrome" -> << "c","r","o","s","-","c","h","r","o","m","e" >>
    [] s = "cros-chrome-guest" ->
         << "c","r","o","s","-","c","h","r","o","m","e","-","g","u","e","s","t" >>
    [] s = "exact" -> << "e","x","a","c","t" >>
    [] s = "reference" -> << "r","e","f","e","r","e","n","c","e" >>
    [] s = "release" -> << "r","e","l","e","a","s","e" >>
    [] s = "android" -> << "a","n","d","r","o","i","d" >>
    [] s = "chromeos" -> << "c","h","r","o","m","e","o","s" >>
    [] s = "darwin" -> << "d","a","r","w","i","n" >>
    [] s = "linux" -> << "l","i","n","u","x" >>
    [] s = "linux2" -> << "l","i","n","u","x","2" >>
    [] s = "win" -> << "w","i","n" >>
    [] s = "win32" -> << "w","i","n","3","2" >>

RECURSIVE SeqLess(_, _)
SeqLess(a, b) ==
  IF b = << >> THEN FALSE
  ELSE IF a = << >> THEN TRUE
  ELSE IF CharCode(Head(a)) # CharCode(Head(b))
       THEN CharCode(Head(a)) < CharCode(Head(b))
       ELSE SeqLess(Tail(a), Tail(b))

\* s < t on Python strings
StrLess(s, t) == SeqLess(Spell(s), Spell(t))

\* s.startswith(prefix)
StartsWith(s, prefix) ==
  /\ Len(Spell(prefix)) <= Len(Spell(s))
  /\ SubSeq(Spell(s), 1, Len(Spell(prefix))) = Spell(prefix)

\* Insert that does not compare
InsertLast(x, sorted) == Append(sorted, x)

RECURSIVE Insert(_, _)
Insert(x, sorted) ==
  IF sorted = << >> THEN << x >>
  ELSE IF StrLess(x, Head(sorted)) THEN << x >> \o sorted
  ELSE << Head(sorted) >> \o Insert(x, Tail(sorted))

RECURSIVE SortedList(_)
\* sorted(list(S)) for a set S of strings
SortedList(S) ==
  IF S = {} THEN << >>
  ELSE LET x == CHOOSE y \in S : TRUE
       IN Insert(x, SortedList(S \ {x}))

Range(seq) == { seq[i] : i \in 1..Len(seq) }

RECURSIVE LastIndex(_, _)
\* the position of the last occurrence
LastIndex(list, x) ==
  IF list = << >> THEN -1
  ELSE IF list[Len(list)] = x THEN Len(list) - 1
  ELSE LastIndex(SubSeq(list, 1, Len(list) - 1), x)

RECURSIVE Index(_, _)
\* list.index(x): the position of the first occurrence (0-based), or -1
\* where Python raises ValueError
Index(list, x) ==
  IF list = << >> THEN -1
  ELSE IF Head(list) = x THEN 0
  ELSE LET r == Index(Tail(list), x) IN IF r = -1 THEN -1 ELSE r + 1


(***************************************************************************)
(* The registered finders, in registration order, and the types each one   *)
(* declares (finder.FindAllBrowserTypes).  "exact" and "reference" are     *)
(* declared twice, as the desktop and the android finder both do.          *)
(***************************************************************************)
BROWSER_FINDERS ==
  << "desktop_browser_finder", "android_browser_finder", "cros_browser_finder" >>

FinderTypes(finder) ==
  CASE finder = "desktop_browser_finder" -> << "exact", "reference", "release" >>
    [] finder = "android_browser_finder" ->
         << "android-chromium", "exact", "reference" >>
    [] finder = "cros_browser_finder" -> << "cros-chrome", "cros-chrome-guest" >>

\* target_os values a candidate may carry
OsNames == { "android", "chromeos", "darwin", "linux", "linux2", "win", "win32" }

\* the target_os of the candidates a finder builds, for the operations that
\* do not read target_os
FinderOs(finder) ==
  CASE finder = "desktop_browser_finder" -> "linux"
    [] finder = "android_browser_finder" -> "android"
    [] finder = "cros_browser_finder" -> "chromeos"

BrowserTypeValues ==
  { None, "any", "exact", "reference", "release", "android-chromium",
    "cros-chrome", "cros-chrome-guest" }

OptionsClasses == { "BrowserFinderOptions", "_FakeBrowserFinderOptions" }

\* every options value: the fields FindBrowser reads
AllOptions ==
  [ class : OptionsClasses,
    browser_type : BrowserTypeValues,
    browser_executable : { None, "/path/to/chrome" },
    cros_remote : { None, "cros-host" } ]

VARIABLES
  options,                 \* the field values of the options objects in use
  devices,                 \* what GetDevicesMatchingOptions(options) returns
  world,                   \* the candidates the finders report, in device
                           \* order then finder order
  findBrowserCache,        \* the cache of the decorated FindBrowser
  availableBrowsersCache,  \* the cache of the decorated GetAllAvailableBrowsers
  availableTypesCache,     \* the cache of the decorated GetAllAvailableBrowserTypes
  lastCall,                \* the last call of an entry point and what it did
  hookCount,               \* UpdateExecutableIfNeeded calls, per candidate
  discoveries,             \* finder.FindAllAvailableBrowsers calls, per
                           \* (device, finder)
  calls                    \* entry-point calls so far

vars ==
  << options, devices, world, findBrowserCache, availableBrowsersCache,
     availableTypesCache, lastCall, hookCount, discoveries, calls >>

FinderIds == 1..Len(BROWSER_FINDERS)

\* a candidate as a finder reports it for one device
Candidates(nDevices, typesOf, osOf, times, supports, defaults) ==
  UNION { [ device : 1..nDevices,
            finder : {f},
            browser_type : typesOf[BROWSER_FINDERS[f]],
            target_os : osOf[BROWSER_FINDERS[f]],
            last_modification_time : times,
            supports : supports,
            is_default : defaults ] : f \in FinderIds }

CellRank(b) == (b.device - 1) * Len(BROWSER_FINDERS) + b.finder

\* The reports of the finders as one list, ordered as FindBrowser's loops meet
\* them.  SelectDefaultBrowser picks at most one of a finder's own candidates.
WellFormed(w) ==
  /\ \A i \in 1..Len(w) - 1 : CellRank(w[i]) <= CellRank(w[i + 1])
  /\ \A i, j \in 1..Len(w) :
       /\ i # j
       /\ CellRank(w[i]) = CellRank(w[j])
       /\ w[i].is_default
       => ~w[j].is_default

(***************************************************************************)
(* What the finders answer.                                                *)
(***************************************************************************)
\* finder.FindAllAvailableBrowsers(options, device): candidates by their
\* position in world
FindAllAvailableBrowsers(f, device) ==
  SelectSeq([ i \in 1..Len(world) |-> i ],
            LAMBDA i : world[i].device = device /\ world[i].finder = f)

\* finder.SelectDefaultBrowser(curr_browsers): a candidate of the list, or 0
\* for None
SelectDefaultBrowser(curr_browsers) ==
  IF \E k \in 1..Len(curr_browsers) : world[curr_browsers[k]].is_default
  THEN curr_browsers[CHOOSE k \in 1..Len(curr_browsers) :
                       world[curr_browsers[k]].is_default]
  ELSE 0

RECURSIVE FindAllBrowserTypesFrom(_)
FindAllBrowserTypesFrom(f) ==
  IF f > Len(BROWSER_FINDERS) THEN << >>
  ELSE FinderTypes(BROWSER_FINDERS[f]) \o FindAllBrowserTypesFrom(f + 1)

\* FindAllBrowserTypes(options): the finders' declared types, concatenated
FindAllBrowserTypes == FindAllBrowserTypesFrom(1)

(***************************************************************************)
(* FindBrowser.                                                            *)
(***************************************************************************)
Result(kind, browser, types) ==
  [ kind |-> kind, browser |-> browser, types |-> types ]

NoQueries == [ devices |-> 0, types |-> 0, available |-> << >>, defaults |-> 0 ]

\* the checks without the one on --remote
ImproperlySetNoRemoteCheck(o) ==
  \/ o.browser_type = "exact" /\ o.browser_executable = None
  \/ o.browser_type # "exact" /\ o.browser_executable # None
  \/ o.browser_type = "cros-chrome" /\ o.cros_remote = None

\* the checks without the one on browser_type=cros-chrome
ImproperlySetNoCrosCheck(o) ==
  \/ o.browser_type = "exact" /\ o.browser_executable = None
  \/ o.browser_type # "exact" /\ o.browser_executable # None
  \/ /\ o.browser_type # "cros-chrome"
     /\ o.browser_type # "cros-chrome-guest"
     /\ o.cros_remote # None

\* the four checks on the flags, in the order of the code
ImproperlySet(o) ==
  \/ o.browser_type = "exact" /\ o.browser_executable = None
  \/ o.browser_type # "exact" /\ o.browser_executable # None
  \/ o.browser_type = "cros-chrome" /\ o.cros_remote = None
  \/ /\ o.browser_type # "cros-chrome"
     /\ o.browser_type # "cros-chrome-guest"
     /\ o.cros_remote # None

\* the inner loop asks the finder for its types only for an explicit type
AsksFinderTypes(o) == o.browser_type # None /\ o.browser_type # "any"

\* the test of the inner loop that skips a finder
SkipsFinder(o, f) ==
  /\ AsksFinderTypes(o)
  /\ o.browser_type \notin Range(FinderTypes(BROWSER_FINDERS[f]))

\* one pass of the inner loop body, for finder f and the device
VisitFinder(o, acc, device, f) ==
  IF SkipsFinder(o, f)
  THEN [ acc EXCEPT !.types = @ + 1 ]
  ELSE LET curr_browsers == FindAllAvailableBrowsers(f, device)
           new_default_browser == SelectDefaultBrowser(curr_browsers)
       IN [ browsers |-> acc.browsers \o curr_browsers,
            default_browsers |->
              IF new_default_browser # 0
              THEN Append(acc.default_browsers, new_default_browser)
              ELSE acc.default_browsers,
            types |-> acc.types + IF AsksFinderTypes(o) THEN 1 ELSE 0,
            available |-> Append(acc.available, << device, f >>),
            defaults |-> acc.defaults + 1 ]

RECURSIVE VisitFinders(_, _, _, _)
VisitFinders(o, acc, device, f) ==
  IF f > Len(BROWSER_FINDERS) THEN acc
  ELSE VisitFinders(o, VisitFinder(o, acc, device, f), device, f + 1)

RECURSIVE VisitDevices(_, _, _)
\* the two nested loops: devices outside, finders inside
VisitDevices(o, acc, devs) ==
  IF devs = << >> THEN acc
  ELSE VisitDevices(o, VisitFinders(o, acc, Head(devs), 1), Tail(devs))

Aggregate(o) ==
  VisitDevices(o,
               [ browsers |-> << >>, default_browsers |-> << >>, types |-> 0,
                 available |-> << >>, defaults |-> 0 ],
               devices)

RECURSIVE MaxByTimeLast(_)
\* the last of the maxima
MaxByTimeLast(list) ==
  IF Len(list) = 1 THEN list[1]
  ELSE LET best == MaxByTimeLast(SubSeq(list, 1, Len(list) - 1))
           last == list[Len(list)]
       IN IF world[last].last_modification_time >=
               world[best].last_modification_time
          THEN last ELSE best

RECURSIVE MaxByTime(_)
\* max(list, key=lambda b: b.last_modification_time): the first of the maxima
MaxByTime(list) ==
  IF Len(list) = 1 THEN list[1]
  ELSE LET best == MaxByTime(SubSeq(list, 1, Len(list) - 1))
           last == list[Len(list)]
       IN IF world[last].last_modification_time >
               world[best].last_modification_time
          THEN last ELSE best

RECURSIVE MinByTypeIndex(_, _)
\* min(list, key=lambda b: types.index(b.browser_type)): the first of the minima
MinByTypeIndex(list, types) ==
  IF Len(list) = 1 THEN list[1]
  ELSE LET best == MinByTypeIndex(SubSeq(list, 1, Len(list) - 1), types)
           last == list[Len(list)]
       IN IF Index(types, world[last].browser_type) <
               Index(types, world[best].browser_type)
          THEN last ELSE best

\* the filter without SupportsOptions
MatchingBrowsersByTypeOnly(o, browsers) ==
  SelectSeq(browsers, LAMBDA b : world[b].browser_type = o.browser_type)

\* the candidates of the list an explicit browser_type keeps
MatchingBrowsers(o, browsers) ==
  SelectSeq(browsers,
            LAMBDA b : /\ world[b].browser_type = o.browser_type
                       /\ world[b].supports)

TypeNames(browsers) == { world[browsers[i]].browser_type : i \in 1..Len(browsers) }

\* a selection that forgets the hook
NoUpdateExecutable(b) == << >>

\* a test that never takes the only available browser
OnlyOneBrowserNever(browsers) == Len(browsers) = 0

\* b.UpdateExecutableIfNeeded(): the hook calls it adds
UpdateExecutableIfNeeded(b) == << b >>

\* the test that the only available browser is used
OnlyOneBrowser(browsers) == Len(browsers) = 1

\* the part of FindBrowser after the loops: the result and the candidates whose
\* UpdateExecutableIfNeeded it calls
Resolve(o, browsers, default_browsers) ==
  IF browsers = << >>
  THEN [ result |-> Result("None", 0, << >>), hooked |-> << >>, types |-> 0 ]
  ELSE IF o.browser_type = None
  THEN IF default_browsers # << >>
       THEN LET default_browser == MaxByTime(default_browsers)
            IN [ result |-> Result("browser", default_browser, << >>),
                 hooked |-> UpdateExecutableIfNeeded(default_browser), types |-> 0 ]
       ELSE IF OnlyOneBrowser(browsers)
       THEN [ result |-> Result("browser", browsers[1], << >>),
              hooked |-> UpdateExecutableIfNeeded(browsers[1]), types |-> 0 ]
       ELSE [ result |-> Result("BrowserTypeRequiredException", 0,
                                SortedList(TypeNames(browsers))),
              hooked |-> << >>, types |-> 0 ]
  ELSE IF o.browser_type = "any"
  THEN LET types == FindAllBrowserTypes
       IN IF \E i \in 1..Len(browsers) :
               Index(types, world[browsers[i]].browser_type) = -1
          THEN [ result |-> Result("ValueError", 0, << >>), hooked |-> << >>,
                 types |-> Len(BROWSER_FINDERS) ]
          ELSE LET chosen_browser == MinByTypeIndex(browsers, types)
               IN [ result |-> Result("browser", chosen_browser, << >>),
                    hooked |-> UpdateExecutableIfNeeded(chosen_browser),
                    types |-> Len(BROWSER_FINDERS) ]
  ELSE LET matching_browsers == MatchingBrowsers(o, browsers)
       IN IF matching_browsers = << >>
          THEN [ result |-> Result("None", 0, << >>), hooked |-> << >>,
                 types |-> 0 ]
          ELSE LET chosen_browser == MaxByTime(matching_browsers)
               IN [ result |-> Result("browser", chosen_browser, << >>),
                    hooked |-> UpdateExecutableIfNeeded(chosen_browser), types |-> 0 ]

\* the body of FindBrowser: what it returns or raises, what it gathered, the
\* hooks it called and the collaborators it queried
FindBrowserBody(o) ==
  IF o.class = "_FakeBrowserFinderOptions"
  THEN [ result |-> Result("fake_possible_browser", 0, << >>),
         browsers |-> << >>, default_browsers |-> << >>, hooked |-> << >>,
         queried |-> NoQueries ]
  ELSE IF ImproperlySet(o)
  THEN [ result |-> Result("BrowserFinderException", 0, << >>),
         browsers |-> << >>, default_browsers |-> << >>, hooked |-> << >>,
         queried |-> NoQueries ]
  ELSE LET agg == Aggregate(o)
           res == Resolve(o, agg.browsers, agg.default_browsers)
       IN [ result |-> res.result,
            browsers |-> agg.browsers,
            default_browsers |-> agg.default_browsers,
            hooked |-> res.hooked,
            queried |-> [ devices |-> 1,
                          types |-> agg.types + res.types,
                          available |-> agg.available,
                          defaults |-> agg.defaults ] ]

Raises(result) ==
  result.kind \in { "BrowserFinderException", "BrowserTypeRequiredException",
                    "ValueError" }

(***************************************************************************)
(* decorators.Cache: a dictionary per decorated function, keyed by the     *)
(* arguments' values; a call that raises stores nothing.                   *)
(***************************************************************************)
EmptyCache == [ k \in {} |-> 0 ]

\* the key of a call: the values of its arguments
CacheKey(args) == args

CacheStore(cache, key, value) ==
  [ k \in DOMAIN cache \cup {key} |-> IF k = key THEN value ELSE cache[k] ]

Cells == { << d, f >> : d \in 1..Len(devices), f \in FinderIds }

\* discoveries after the finders were asked for the cells of the list
RECURSIVE Discovered(_, _)
Discovered(count, available) ==
  IF available = << >> THEN count
  ELSE Discovered([ count EXCEPT ![Head(available)] = @ + 1 ], Tail(available))

RECURSIVE Hooked(_, _)
Hooked(count, hooked) ==
  IF hooked = << >> THEN count
  ELSE Hooked([ count EXCEPT ![Head(hooked)] = @ + 1 ], Tail(hooked))

Call(op, device, hit, out) ==
  [ op |-> op, device |-> device, hit |-> hit,
    result |-> out.result, browsers |-> out.browsers,
    default_browsers |-> out.default_browsers, hooked |-> out.hooked,
    queried |-> out.queried ]

\* FindBrowser without the decorator
FindBrowserUndecorated ==
  /\ calls < MaxCalls
  /\ calls' = calls + 1
  /\ LET out == FindBrowserBody(options)
     IN /\ lastCall' = Call("FindBrowser", 0, FALSE, out)
        /\ hookCount' = Hooked(hookCount, out.hooked)
        /\ discoveries' = Discovered(discoveries, out.queried.available)
  /\ UNCHANGED << options, devices, world, findBrowserCache,
                  availableBrowsersCache, availableTypesCache >>

\* a call FindBrowser(options)
FindBrowser ==
  /\ calls < MaxCalls
  /\ calls' = calls + 1
  /\ LET key == CacheKey(options)
     IN IF key \in DOMAIN findBrowserCache
        THEN /\ lastCall' =
                  Call("FindBrowser", 0, TRUE,
                       [ result |-> findBrowserCache[key], browsers |-> << >>,
                         default_browsers |-> << >>, hooked |-> << >>,
                         queried |-> NoQueries ])
             /\ UNCHANGED << findBrowserCache, hookCount, discoveries >>
        ELSE LET out == FindBrowserBody(options)
             IN /\ lastCall' = Call("FindBrowser", 0, FALSE, out)
                /\ findBrowserCache' =
                     IF Raises(out.result) THEN findBrowserCache
                     ELSE CacheStore(findBrowserCache, key, out.result)
                /\ hookCount' = Hooked(hookCount, out.hooked)
                /\ discoveries' = Discovered(discoveries, out.queried.available)
  /\ UNCHANGED << options, devices, world, availableBrowsersCache,
                  availableTypesCache >>

(***************************************************************************)
(* GetAllAvailableBrowsers and GetAllAvailableBrowserTypes.                *)
(***************************************************************************)
RECURSIVE AskFinders(_, _, _)
\* the loop of GetAllAvailableBrowsers over the finders, none skipped
AskFinders(acc, device, f) ==
  IF f > Len(BROWSER_FINDERS) THEN acc
  ELSE AskFinders([ browsers |-> acc.browsers \o FindAllAvailableBrowsers(f, device),
                    available |-> Append(acc.available, << device, f >>) ],
                  device, f + 1)

\* the body of GetAllAvailableBrowsers; device 0 is None
GetAllAvailableBrowsersBody(device) ==
  IF device = 0
  THEN [ browsers |-> << >>, available |-> << >> ]
  ELSE AskFinders([ browsers |-> << >>, available |-> << >> ], device, 1)

ListOut(browsers, types, devicesAsked, available) ==
  [ result |-> Result("list", 0, types), browsers |-> browsers,
    default_browsers |-> << >>, hooked |-> << >>,
    queried |-> [ devices |-> devicesAsked, types |-> 0,
                  available |-> available, defaults |-> 0 ] ]

\* a call GetAllAvailableBrowsers(options, device)
GetAllAvailableBrowsers(device) ==
  /\ calls < MaxCalls
  /\ calls' = calls + 1
  /\ LET key == CacheKey(<< options, device >>)
     IN IF key \in DOMAIN availableBrowsersCache
        THEN /\ lastCall' =
                  Call("GetAllAvailableBrowsers", device, TRUE,
                       ListOut(availableBrowsersCache[key], << >>, 0, << >>))
             /\ UNCHANGED << availableBrowsersCache, discoveries >>
        ELSE LET body == GetAllAvailableBrowsersBody(device)
             IN /\ lastCall' =
                     Call("GetAllAvailableBrowsers", device, FALSE,
                          ListOut(body.browsers, << >>, 0, body.available))
                /\ availableBrowsersCache' =
                     CacheStore(availableBrowsersCache, key, body.browsers)
                /\ discoveries' = Discovered(discoveries, body.available)
  /\ UNCHANGED << options, devices, world, findBrowserCache, availableTypesCache,
                  hookCount >>

RECURSIVE GatherDevices(_, _)
\* the loop of GetAllAvailableBrowserTypes over the devices, each through the
\* decorated GetAllAvailableBrowsers
GatherDevices(acc, devs) ==
  IF devs = << >> THEN acc
  ELSE LET key == CacheKey(<< options, Head(devs) >>)
       IN IF key \in DOMAIN acc.cache
          THEN GatherDevices([ acc EXCEPT !.browsers = @ \o acc.cache[key] ],
                             Tail(devs))
          ELSE LET body == GetAllAvailableBrowsersBody(Head(devs))
               IN GatherDevices([ cache |-> CacheStore(acc.cache, key, body.browsers),
                                  browsers |-> acc.browsers \o body.browsers,
                                  available |-> acc.available \o body.available ],
                                Tail(devs))

\* the test without Windows
HasReferenceBuildNoWin(target_os) ==
  \/ target_os = "darwin"
  \/ StartsWith(target_os, "linux")

\* the target_os test of the reference build
HasReferenceBuild(target_os) ==
  \/ target_os = "darwin"
  \/ StartsWith(target_os, "linux")
  \/ StartsWith(target_os, "win")

RECURSIVE AddReference(_, _)
\* the loop that adds 'reference' at the first candidate that passes the test
AddReference(type_list, browsers) ==
  IF browsers = << >> THEN type_list
  ELSE IF HasReferenceBuild(world[Head(browsers)].target_os)
       THEN type_list \cup { "reference" }
       ELSE AddReference(type_list, Tail(browsers))

\* a call GetAllAvailableBrowserTypes(options)
GetAllAvailableBrowserTypes ==
  /\ calls < MaxCalls
  /\ calls' = calls + 1
  /\ LET key == CacheKey(options)
     IN IF key \in DOMAIN availableTypesCache
        THEN /\ lastCall' =
                  Call("GetAllAvailableBrowserTypes", 0, TRUE,
                       ListOut(<< >>, availableTypesCache[key], 0, << >>))
             /\ UNCHANGED << availableTypesCache, availableBrowsersCache,
                             discoveries >>
        ELSE LET got == GatherDevices([ cache |-> availableBrowsersCache,
                                        browsers |-> << >>,
                                        available |-> << >> ], devices)
                 type_list == AddReference(TypeNames(got.browsers), got.browsers)
                 sorted == SortedList(type_list)
             IN /\ lastCall' =
                     Call("GetAllAvailableBrowserTypes", 0, FALSE,
                          ListOut(got.browsers, sorted, 1, got.available))
                /\ availableTypesCache' =
                     CacheStore(availableTypesCache, key, sorted)
                /\ availableBrowsersCache' = got.cache
                /\ discoveries' = Discovered(discoveries, got.available)
  /\ UNCHANGED << options, devices, world, findBrowserCache, hookCount >>

NoCall ==
  Call("none", 0, FALSE,
       [ result |-> Result("None", 0, << >>), browsers |-> << >>,
         default_browsers |-> << >>, hooked |-> << >>, queried |-> NoQueries ])

InitWith(optionsSet, typesOf, osOf, times, supports, defaults) ==
  /\ options \in optionsSet
  /\ \E n \in 0..MaxDevices :
       /\ devices = [ i \in 1..n |-> i ]
       /\ \E k \in 0..MaxBrowsers :
            /\ world \in [ 1..k -> Candidates(n, typesOf, osOf, times, supports,
                                              defaults) ]
            /\ WellFormed(world)
  /\ findBrowserCache = EmptyCache
  /\ availableBrowsersCache = EmptyCache
  /\ availableTypesCache = EmptyCache
  /\ lastCall = NoCall
  /\ hookCount = [ i \in 1..Len(world) |-> 0 ]
  /\ discoveries = [ c \in Cells |-> 0 ]
  /\ calls = 0

(***************************************************************************)
(* The specifications.  Each draws the options and the finders' reports    *)
(* from the values its operations read; an attribute they do not read is   *)
(* held at one value.  The reported types are among those the finder       *)
(* declares, as the finders' own skipping test presumes.                   *)
(***************************************************************************)
DeclaredTypes(finder) == Range(FinderTypes(finder))

\* the types of the candidates FindBrowser is given to choose among
ResolveTypes ==
  [ finder \in Range(BROWSER_FINDERS) |-> DeclaredTypes(finder) \ { "reference" } ]

\* the types and systems of the candidates the listing is given
ListingTypes ==
  [ finder \in Range(BROWSER_FINDERS) |->
      CASE finder = "desktop_browser_finder" -> { "reference", "release" }
        [] finder = "android_browser_finder" -> { "android-chromium", "reference" }
        [] finder = "cros_browser_finder" -> { "cros-chrome" } ]

ListingOs ==
  [ finder \in Range(BROWSER_FINDERS) |->
      CASE finder = "desktop_browser_finder" -> { "darwin", "linux2", "win" }
        [] finder = "android_browser_finder" -> { "android" }
        [] finder = "cros_browser_finder" -> { "chromeos" } ]

FinderOsOnly == [ finder \in Range(BROWSER_FINDERS) |-> { FinderOs(finder) } ]

\* the options FindBrowser accepts
ValidOptions ==
  { o \in AllOptions : o.class = "BrowserFinderOptions" /\ ~ImproperlySet(o) }

UnsetOptions == { o \in ValidOptions : o.browser_type = None }

AnyOptions == { o \in ValidOptions : o.browser_type = "any" }

ExplicitOptions ==
  { o \in ValidOptions : o.browser_type \in { "exact", "release" } }

\* options of every path of FindBrowser: omitted, any and explicit types,
\* flags improperly set, and the fake options of the tests
SessionOptions ==
  { o \in AllOptions :
      \/ o \in ValidOptions /\ o.browser_type \in { None, "any", "exact", "release" }
      \/ o.class = "BrowserFinderOptions" /\ o.browser_type = "release"
      \/ /\ o.class = "_FakeBrowserFinderOptions"
         /\ o.browser_type = None
         /\ o.browser_executable = None
         /\ o.cros_remote = None }

\* the listing reads no field of the options: one valid value, one that is not
ListingOptions ==
  { o \in AllOptions : /\ o.class = "BrowserFinderOptions"
                       /\ o.browser_type \in { None, "exact" }
                       /\ o.browser_executable = None
                       /\ o.cros_remote = None }

Next == FindBrowser

\* every options value, valid or not
InitValidation ==
  InitWith(AllOptions, ResolveTypes, FinderOsOnly, {1}, {TRUE}, {FALSE})

SpecValidation == InitValidation /\ [][Next]_vars

\* --browser omitted
InitUnset ==
  InitWith(UnsetOptions, ResolveTypes, FinderOsOnly, 1..MaxTime, {TRUE}, BOOLEAN)

SpecUnset == InitUnset /\ [][Next]_vars

\* --browser=any
InitAny ==
  InitWith(AnyOptions, ResolveTypes, FinderOsOnly, 1..MaxTime, {TRUE}, BOOLEAN)

SpecAny == InitAny /\ [][Next]_vars

\* --browser=<type>
InitExplicit ==
  InitWith(ExplicitOptions, ResolveTypes, FinderOsOnly, 1..MaxTime, BOOLEAN, {FALSE})

SpecExplicit == InitExplicit /\ [][Next]_vars

\* every path of FindBrowser
Init ==
  InitWith(SessionOptions, ResolveTypes, FinderOsOnly, {1}, BOOLEAN, BOOLEAN)

Spec == Init /\ [][Next]_vars

\* the listing entry points
InitListing ==
  InitWith(ListingOptions, ListingTypes, ListingOs, {1}, {TRUE}, {FALSE})

NextListing ==
  \/ GetAllAvailableBrowserTypes
  \/ \E device \in 0..Len(devices) : GetAllAvailableBrowsers(device)

SpecListing == InitListing /\ [][NextListing]_vars

(***************************************************************************)
(* Properties.                                                             *)
(***************************************************************************)
\* the last call was FindBrowser
Resolved == lastCall.op = "FindBrowser"

\* FindBrowser returned candidate b
Chosen(b) == lastCall.result.kind = "browser" /\ lastCall.result.browser = b

Reported == 1..Len(world)

TimeOf(b) == world[b].last_modification_time

\* b is met before c: device order, then registration order of the finders
MetBefore(b, c) ==
  \/ world[b].device < world[c].device
  \/ world[b].device = world[c].device /\ world[b].finder < world[c].finder
  \/ world[b].device = world[c].device /\ world[b].finder = world[c].finder /\ b < c

ExecutableSet(o) == o.browser_executable # None

RemoteSet(o) == o.cros_remote # None

ChromeOsTypes == { "cros-chrome", "cros-chrome-guest" }

\* the four rules on the flags
ViolatesRule(o) ==
  \/ o.browser_type = "exact" /\ ~ExecutableSet(o)
  \/ o.browser_type # "exact" /\ ExecutableSet(o)
  \/ o.browser_type = "cros-chrome" /\ ~RemoteSet(o)
  \/ o.browser_type \notin ChromeOsTypes /\ RemoteSet(o)

\* C1 as stated: for every configuration that violates a rule, FindBrowser
\* fails with the configuration error and has queried neither the device
\* enumerator nor a finder.
C1_EveryViolationFails ==
  (Resolved /\ ViolatesRule(options))
    => /\ lastCall.result.kind = "BrowserFinderException"
       /\ lastCall.queried = NoQueries

\* C1 amended: for every configuration that violates a rule and is not the fake
\* options of the tests, FindBrowser fails with the configuration error and has
\* queried neither the device enumerator nor a finder.
C1_ViolationFailsUnlessFake ==
  (Resolved /\ ViolatesRule(options) /\ options.class # "_FakeBrowserFinderOptions")
    => /\ lastCall.result.kind = "BrowserFinderException"
       /\ lastCall.queried = NoQueries

C1_Witness ==
  /\ Resolved
  /\ ViolatesRule(options)
  /\ options.class = "BrowserFinderOptions"
  /\ options.browser_type = "release"
  /\ RemoteSet(options)
  /\ lastCall.result.kind = "BrowserFinderException"
  /\ Len(devices) = 2
  /\ Len(world) = 2

\* the candidates the finders flag as their default
DefaultsOf == { b \in Reported : world[b].is_default }

\* C2: with browser_type unset and some default reported, FindBrowser returns
\* a default of maximum last_modification_time, and among several of that time
\* the one met first (device order, then finder registration order), whatever
\* the other candidates are.
C2_NewestDefaultFirstSeen ==
  (Resolved /\ options.browser_type = None /\ DefaultsOf # {})
    => \E b \in DefaultsOf :
         /\ Chosen(b)
         /\ \A c \in DefaultsOf :
              /\ TimeOf(c) <= TimeOf(b)
              /\ (c # b /\ TimeOf(c) = TimeOf(b)) => MetBefore(b, c)

C2_Witness ==
  /\ Resolved
  /\ options.browser_type = None
  /\ Len(world) = 2
  /\ DefaultsOf = { 1, 2 }
  /\ TimeOf(1) = TimeOf(2)
  /\ world[1].device = 1
  /\ world[2].device = 2
  /\ world[1].finder > world[2].finder
  /\ Chosen(1)

AllTypeNames == { world[b].browser_type : b \in Reported }

\* the names in lexicographic order, written out
LexOrder ==
  << "android-chromium", "any", "cros-chrome", "cros-chrome-guest", "exact",
     "reference", "release" >>

LexRank(name) == CHOOSE k \in 1..Len(LexOrder) : LexOrder[k] = name

\* a list of names in lexicographic order, none twice
StrictlySorted(names) ==
  \A i, j \in 1..Len(names) : i < j => LexRank(names[i]) < LexRank(names[j])

Matching ==
  { b \in Reported : world[b].browser_type = options.browser_type /\ world[b].supports }

\* C4: with an explicit browser_type, FindBrowser returns None without raising
\* when no candidate has that type and supports the options, and otherwise a
\* candidate of that type that supports the options, of maximum
\* last_modification_time among those.
C4_ExplicitTypeMatches ==
  (/\ Resolved
   /\ options.browser_type \notin { None, "any" }
   /\ ~ViolatesRule(options)
   /\ options.class # "_FakeBrowserFinderOptions")
    => IF Matching = {}
       THEN lastCall.result.kind = "None"
       ELSE \E b \in Matching :
              /\ Chosen(b)
              /\ \A c \in Matching : TimeOf(c) <= TimeOf(b)

C4_Witness ==
  /\ Resolved
  /\ options.browser_type = "exact"
  /\ Len(world) = 2
  /\ world[1].browser_type = "exact"
  /\ world[2].browser_type = "exact"
  /\ world[1].finder # world[2].finder
  /\ ~world[1].supports
  /\ TimeOf(1) > TimeOf(2)
  /\ Chosen(2)

\* the first place of a type in FindAllBrowserTypes(options)
FirstPlace(name) ==
  CHOOSE k \in 1..Len(FindAllBrowserTypes) :
    /\ FindAllBrowserTypes[k] = name
    /\ \A m \in 1..(k - 1) : FindAllBrowserTypes[m] # name

\* C5: with browser_type 'any' and some candidate, FindBrowser returns the
\* candidate whose type comes first in FindAllBrowserTypes(options) (first
\* occurrence of the type), and among several of that type the one met first;
\* last_modification_time plays no part.
C5_AnyPicksFirstDeclaredType ==
  (Resolved /\ options.browser_type = "any" /\ world # << >>)
    => \E b \in Reported :
         /\ Chosen(b)
         /\ \A c \in Reported :
              /\ FirstPlace(world[b].browser_type) <= FirstPlace(world[c].browser_type)
              /\ (c # b /\ world[c].browser_type = world[b].browser_type)
                   => MetBefore(b, c)

C5_Witness ==
  /\ Resolved
  /\ options.browser_type = "any"
  /\ Len(world) = 2
  /\ world[1].browser_type = "release"
  /\ world[2].browser_type = "exact"
  /\ world[2].finder = 2
  /\ TimeOf(1) > TimeOf(2)
  /\ Chosen(2)

\* C6: the candidate FindBrowser returns has had UpdateExecutableIfNeeded
\* called exactly once, by the call that chose it; no other candidate has had
\* it called, and none at all when FindBrowser returns None or raises.
C6_HookOnceOnChosen ==
  Resolved
    => /\ \A b \in Reported : hookCount[b] = IF Chosen(b) THEN 1 ELSE 0
       /\ ~lastCall.hit =>
            lastCall.hooked = IF lastCall.result.kind = "browser"
                              THEN << lastCall.result.browser >>
                              ELSE << >>

C6_Witness ==
  /\ Resolved
  /\ calls = 2
  /\ Len(world) = 2
  /\ Chosen(2)
  /\ hookCount[2] = 1
  /\ hookCount[1] = 0

DesktopOsNames == { "darwin", "linux", "linux2", "win", "win32" }

\* C8: GetAllAvailableBrowserTypes returns a list in lexicographic order with
\* no duplicate that holds the type of every candidate reported for the
\* matching devices, and holds 'reference' if and only if some candidate's
\* target_os names macOS, Linux or Windows or some candidate has the type
\* 'reference'.
C8_SortedTypesWithReference ==
  lastCall.op = "GetAllAvailableBrowserTypes"
    => /\ StrictlySorted(lastCall.result.types)
       /\ AllTypeNames \subseteq Range(lastCall.result.types)
       /\ "reference" \in Range(lastCall.result.types)
            <=> \E b \in Reported :
                  \/ world[b].target_os \in DesktopOsNames
                  \/ world[b].browser_type = "reference"

C8_Witness ==
  /\ lastCall.op = "GetAllAvailableBrowserTypes"
  /\ Len(world) = 2
  /\ world[1].target_os = "win"
  /\ world[2].target_os = "linux2"
  /\ world[1].browser_type = "release"
  /\ world[2].browser_type = "release"
  /\ lastCall.result.types = << "reference", "release" >>

\* C9: with browser_type unset, no default reported and exactly one candidate,
\* FindBrowser returns that candidate and does not raise.
C9_OnlyCandidateChosen ==
  (Resolved /\ options.browser_type = None /\ DefaultsOf = {} /\ Len(world) = 1)
    => Chosen(1)

C9_Witness ==
  /\ Resolved
  /\ options.browser_type = None
  /\ DefaultsOf = {}
  /\ Len(world) = 1
  /\ Len(devices) = 2
  /\ world[1].device = 2
  /\ Chosen(1)

\* FindBrowser went on to enumerate the devices
Accepted == Resolved /\ lastCall.queried.devices > 0

\* C10 as stated: every configuration FindBrowser accepts has cros_remote set
\* if and only if browser_type is a ChromeOS variant.
C10_RemoteIffChromeOs ==
  Accepted => (RemoteSet(options) <=> options.browser_type \in ChromeOsTypes)

\* C10 amended: every configuration FindBrowser accepts has cros_remote set
\* only if browser_type is a ChromeOS variant, and has cros_remote set if
\* browser_type is 'cros-chrome'; 'cros-chrome-guest' is accepted without
\* cros_remote.
C10_RemoteOnlyForChromeOs ==
  Accepted
    => /\ RemoteSet(options) => options.browser_type \in ChromeOsTypes
       /\ options.browser_type = "cros-chrome" => RemoteSet(options)

C10_Witness ==
  /\ Accepted
  /\ options.browser_type = "cros-chrome"
  /\ RemoteSet(options)
  /\ Len(world) = 2

=============================================================================
